---- MODULE Spec2Model ----
(***************************************************************************)
(* A model of package daytime (src/daytime.go): the DayTime value, New,    *)
(* Parse and String, the anchoring operations Time, InTheNearFuture and    *)
(* InTheRecentPast, and the encode / decode adapters.                      *)
(*                                                                         *)
(* Text is a sequence of one-character strings.  An instant (time.Time) is *)
(* a number of ticks since day 0 at 00:00:00 in the local zone, SubSec     *)
(* ticks to the second; the local zone has no daylight-saving shift, so    *)
(* every calendar day is Day ticks long.  A *DayTime is "nil" or "t", the  *)
(* address of the one DayTime object the caller holds (variable t).        *)
(***************************************************************************)
EXTENDS Integers, Sequences, FiniteSets, TLC

VARIABLES t, clock, call, hist

vars == <<t, clock, call, hist>>

(***************************************************************************)
(* Bounds of the model.                                                    *)
(***************************************************************************)
\* ticks per second: the resolution of the clock's sub-second part
SubSec == 2
\* the clock runs over the calendar days 1..MaxDay
MaxDay == 1
\* between the two clock reads of one call the clock advances by at most
\* MaxLag seconds
MaxLag == 2
\* New is tried on integers up to Slack outside the valid ranges
Slack == 2
\* a text carries at most MaxPad characters of padding on either side
MaxPad == 1

(***************************************************************************)
(* Durations (package time) and the package's constants.                   *)
(***************************************************************************)
Second == SubSec
Minute == 60 * Second
Hour == 60 * Minute
Day == 24 * Hour
DefaultTime == <<"0", "0", ":", "0", "0">>

ErrObjIsNil == "object is nil"
ErrInvalid == "invalid"
ErrUnexpected == "unexpected"
\* strconv.ErrSyntax, the cause of an Atoi failure
ErrSyntax == "invalid syntax"

\* an error value: its root cause and the messages wrapped around it,
\* outermost first; NoErr is the nil error
NoErr == [cause |-> "nil", msgs |-> <<>>]
ErrorNew(e) == [cause |-> e, msgs |-> <<>>]
Wrap(err, msg) == [cause |-> err.cause, msgs |-> <<msg>> \o err.msgs]
\* errors.Is(err, target) for the package's sentinel errors
ErrorIs(err, target) == err.cause = target

\* DayTime{}: the zero value
ZeroDayTime == [hour |-> 0, minute |-> 0, second |-> 0]
DayTime(hour, minute, second) == [hour |-> hour, minute |-> minute, second |-> second]

(***************************************************************************)
(* strconv and strings.                                                    *)
(***************************************************************************)
Digits == <<"0", "1", "2", "3", "4", "5", "6", "7", "8", "9">>
IsDigit(c) == \E i \in 1..10 : Digits[i] = c
DigitVal(c) == (CHOOSE i \in 1..10 : Digits[i] = c) - 1

RECURSIVE FormatUint(_)
FormatUint(n) ==
    IF n < 10 THEN <<Digits[n + 1]>>
    ELSE FormatUint(n \div 10) \o <<Digits[(n % 10) + 1]>>

\* strconv.Itoa
Itoa(n) == IF n < 0 THEN <<"-">> \o FormatUint(-n) ELSE FormatUint(n)

RECURSIVE ParseUint(_, _)
ParseUint(s, acc) ==
    IF s = <<>> THEN acc
    ELSE ParseUint(Tail(s), 10 * acc + DigitVal(Head(s)))

\* strconv.Atoi: an optional sign, then one or more decimal digits
Atoi(s) ==
    LET signed == s # <<>> /\ Head(s) \in {"+", "-"}
        body == IF signed THEN Tail(s) ELSE s
        ok == body # <<>> /\ \A i \in 1..Len(body) : IsDigit(body[i])
    IN  IF ~ok THEN [n |-> 0, err |-> ErrorNew(ErrSyntax)]
        ELSE [n |-> IF signed /\ Head(s) = "-" THEN -ParseUint(body, 0)
                    ELSE ParseUint(body, 0),
              err |-> NoErr]

RECURSIVE TrimLeft(_, _)
TrimLeft(s, cutset) ==
    IF s # <<>> /\ Head(s) \in cutset THEN TrimLeft(Tail(s), cutset) ELSE s

RECURSIVE TrimRight(_, _)
TrimRight(s, cutset) ==
    IF s # <<>> /\ s[Len(s)] \in cutset
    THEN TrimRight(SubSeq(s, 1, Len(s) - 1), cutset)
    ELSE s

\* strings.Trim
Trim(s, cutset) == TrimRight(TrimLeft(s, cutset), cutset)

RECURSIVE SplitFrom(_, _, _)
SplitFrom(s, sep, cur) ==
    IF s = <<>> THEN <<cur>>
    ELSE IF Head(s) = sep THEN <<cur>> \o SplitFrom(Tail(s), sep, <<>>)
    ELSE SplitFrom(Tail(s), sep, Append(cur, Head(s)))

\* strings.Split on a one-character separator
Split(s, sep) == SplitFrom(s, sep, <<>>)

(***************************************************************************)
(* daytimeRegex: ^\d\d:\d\d(:\d\d){0,1}$ .  An atom is "d" (an ASCII       *)
(* digit) or a literal character; the pattern is a fixed head and a group  *)
(* taken at most once, anchored at both ends of the text.                  *)
(***************************************************************************)
RegexHead == <<"d", "d", ":", "d", "d">>
RegexGroup == <<":", "d", "d">>
AtomMatches(atom, c) == IF atom = "d" THEN IsDigit(c) ELSE c = atom

\* the atoms match the text from position pos on; the position after them, or 0
MatchAtoms(atoms, s, pos) ==
    IF /\ pos + Len(atoms) - 1 <= Len(s)
       /\ \A i \in 1..Len(atoms) : AtomMatches(atoms[i], s[pos + i - 1])
    THEN pos + Len(atoms)
    ELSE 0

\* len(daytimeRegex.FindAllStringSubmatch(value, -1)) # 0
RegexMatches(s) ==
    LET p == MatchAtoms(RegexHead, s, 1)
    IN  /\ p # 0
        /\ \/ p = Len(s) + 1
           \/ MatchAtoms(RegexGroup, s, p) = Len(s) + 1

(***************************************************************************)
(* New, Parse, String.                                                     *)
(***************************************************************************)
New_HourUpTo24(hour, minute, second) ==
    IF hour < 0 \/ hour > 24
    THEN [val |-> ZeroDayTime,
          err |-> Wrap(ErrorNew(ErrInvalid), <<"value of hour is ">> \o Itoa(hour))]
    ELSE IF minute < 0 \/ minute > 59
    THEN [val |-> ZeroDayTime,
          err |-> Wrap(ErrorNew(ErrInvalid), <<"value of minute is ">> \o Itoa(minute))]
    ELSE IF second < 0 \/ second > 59
    THEN [val |-> ZeroDayTime,
          err |-> Wrap(ErrorNew(ErrInvalid), <<"value of second is ">> \o Itoa(second))]
    ELSE [val |-> DayTime(hour, minute, second), err |-> NoErr]

New(hour, minute, second) ==
    IF hour < 0 \/ hour > 23
    THEN [val |-> ZeroDayTime,
          err |-> Wrap(ErrorNew(ErrInvalid), <<"value of hour is ">> \o Itoa(hour))]
    ELSE IF minute < 0 \/ minute > 59
    THEN [val |-> ZeroDayTime,
          err |-> Wrap(ErrorNew(ErrInvalid), <<"value of minute is ">> \o Itoa(minute))]
    ELSE IF second < 0 \/ second > 59
    THEN [val |-> ZeroDayTime,
          err |-> Wrap(ErrorNew(ErrInvalid), <<"value of second is ">> \o Itoa(second))]
    ELSE [val |-> DayTime(hour, minute, second), err |-> NoErr]

\* Parse from the regexp match on: the trimmed value is matched, split and
\* converted, and New validates the ranges
ParseValue(value) ==
    IF ~RegexMatches(value)
    THEN [val |-> ZeroDayTime,
          err |-> Wrap(ErrorNew(ErrInvalid), <<"value '">> \o value \o <<"'">>)]
    ELSE
    LET values == Split(value, ":")
        hour == Atoi(values[1])
        minute == Atoi(values[2])
        second == IF Len(values) > 2 THEN Atoi(values[3]) ELSE [n |-> 0, err |-> NoErr]
    IN  IF hour.err # NoErr
        THEN [val |-> ZeroDayTime, err |-> Wrap(hour.err, <<"hour">>)]
        ELSE IF minute.err # NoErr
        THEN [val |-> ZeroDayTime, err |-> Wrap(minute.err, <<"minute">>)]
        ELSE IF second.err # NoErr
        THEN [val |-> ZeroDayTime, err |-> Wrap(second.err, <<"second">>)]
        ELSE New(hour.n, minute.n, second.n)

\* Parse trimming every white-space character, as strings.TrimSpace would
Parse_TrimSpace(text) == ParseValue(Trim(text, {" ", "\t", "\n"}))

Parse(text) == ParseValue(Trim(text, {" ", "\t"}))

\* a decimal field padded to two characters, as String pads each field
Pad(n) == LET s == Itoa(n) IN IF Len(s) = 1 THEN <<"0">> \o s ELSE s

\* String rendering the seconds also when they are 0
String_AlwaysSeconds(ptr, obj) ==
    IF ptr = "nil" THEN DefaultTime
    ELSE Pad(obj.hour) \o <<":">> \o Pad(obj.minute) \o <<":">> \o Pad(obj.second)

\* String without the zero padding of the fields
String_NoPad(ptr, obj) ==
    IF ptr = "nil" THEN DefaultTime
    ELSE
    LET value == Itoa(obj.hour) \o <<":">> \o Itoa(obj.minute)
    IN  IF obj.second = 0 THEN value
        ELSE value \o <<":">> \o Itoa(obj.second)

String(ptr, obj) ==
    IF ptr = "nil" THEN DefaultTime
    ELSE
    LET value == Pad(obj.hour) \o <<":">> \o Pad(obj.minute)
    IN  IF obj.second = 0 THEN value
        ELSE value \o <<":">> \o Pad(obj.second)

(***************************************************************************)
(* Anchoring.  now is what time.Now() returns to the operation itself and  *)
(* tnow what it returns to the Time() the operation calls.                 *)
(***************************************************************************)
\* now.Date(): the calendar day of an instant
DateOf(now) == now \div Day
\* time.Date(year, month, day, hour, min, sec, nsec, loc)
TimeDate(day, hour, min, sec, nsec) ==
    day * Day + hour * Hour + min * Minute + sec * Second + nsec
Before(a, b) == a < b
After(a, b) == a > b
Add(a, d) == a + d

\* Time keeping the sub-second part of now
Time_KeepSubSec(ptr, obj, now) ==
    LET hour == IF ptr # "nil" THEN obj.hour ELSE 0
        minute == IF ptr # "nil" THEN obj.minute ELSE 0
        second == IF ptr # "nil" THEN obj.second ELSE 0
    IN  TimeDate(DateOf(now), hour, minute, second, now % Second)

Time(ptr, obj, now) ==
    LET hour == IF ptr # "nil" THEN obj.hour ELSE 0
        minute == IF ptr # "nil" THEN obj.minute ELSE 0
        second == IF ptr # "nil" THEN obj.second ELSE 0
    IN  TimeDate(DateOf(now), hour, minute, second, 0)

\* InTheNearFuture rolling over when Time() equals now, too
InTheNearFuture_RollOnEqual(ptr, obj, now, tnow) ==
    LET datetime == Time(ptr, obj, tnow)
    IN  IF ~After(datetime, now) THEN Add(datetime, Day) ELSE datetime

InTheNearFuture(ptr, obj, now, tnow) ==
    LET datetime == Time(ptr, obj, tnow)
    IN  IF Before(datetime, now) THEN Add(datetime, Day) ELSE datetime

InTheRecentPast(ptr, obj, now, tnow) ==
    LET datetime == Time(ptr, obj, tnow)
    IN  IF After(datetime, now) THEN Add(datetime, -Day) ELSE datetime

(***************************************************************************)
(* The encode adapters: each returns String() and a nil error.             *)
(***************************************************************************)
MarshalBinary(ptr, obj) == [data |-> String(ptr, obj), err |-> NoErr]
MarshalText(ptr, obj) == [data |-> String(ptr, obj), err |-> NoErr]
MarshalJSON(ptr, obj) == [data |-> String(ptr, obj), err |-> NoErr]
MarshalCSV(ptr, obj) == [data |-> String(ptr, obj), err |-> NoErr]
Value(ptr, obj) == [data |-> String(ptr, obj), err |-> NoErr]

(***************************************************************************)
(* The decode adapters: each returns its error and the value the object    *)
(* holds after the call.                                                   *)
(***************************************************************************)
\* what every decode adapter does with value, err := Parse(...): a failure is
\* returned wrapped and the object left alone, a value is stored (*t = value)
Store(obj, value) ==
    IF value.err # NoErr THEN [err |-> Wrap(value.err, <<"parse">>), obj |-> obj]
    ELSE [err |-> NoErr, obj |-> value.val]

\* the same, storing what Parse returned before looking at the error
StoreFirst(obj, value) ==
    IF value.err # NoErr THEN [err |-> Wrap(value.err, <<"parse">>), obj |-> value.val]
    ELSE [err |-> NoErr, obj |-> value.val]

UnmarshalBinary(ptr, obj, data) ==
    IF ptr = "nil" THEN [err |-> ErrorNew(ErrObjIsNil), obj |-> obj]
    ELSE Store(obj, Parse(data))

\* UnmarshalText storing what Parse returned before it looks at the error
UnmarshalText_StoreFirst(ptr, obj, data) ==
    IF ptr = "nil" THEN [err |-> ErrorNew(ErrObjIsNil), obj |-> obj]
    ELSE StoreFirst(obj, Parse(data))

UnmarshalText(ptr, obj, data) ==
    IF ptr = "nil" THEN [err |-> ErrorNew(ErrObjIsNil), obj |-> obj]
    ELSE Store(obj, Parse(data))

UnmarshalJSON(ptr, obj, data) ==
    IF ptr = "nil" THEN [err |-> ErrorNew(ErrObjIsNil), obj |-> obj]
    ELSE Store(obj, Parse(data))

UnmarshalCSV(ptr, obj, str) ==
    IF ptr = "nil" THEN [err |-> ErrorNew(ErrObjIsNil), obj |-> obj]
    ELSE Store(obj, Parse(str))

\* Scan: src is [kind, text], kind the dynamic type of the value (%T) and text
\* its characters when it is a string or a []byte; printed is what the call
\* writes to standard output, line by line
\* Scan discriminating the shape of src before it looks at the receiver
Scan_SwitchFirst(ptr, obj, src) ==
    IF src.kind \notin {"[]byte", "string"}
    THEN [err |-> Wrap(ErrorNew(ErrUnexpected), <<"type of value '", src.kind, "'">>),
          obj |-> obj, printed |-> <<>>]
    ELSE IF ptr = "nil"
    THEN [err |-> ErrorNew(ErrObjIsNil), obj |-> obj, printed |-> <<>>]
    ELSE [printed |-> IF src.kind = "[]byte"
                      THEN << <<"str(bytes) = '">> \o src.text \o <<"'">> >>
                      ELSE <<>>]
         @@ Store(obj, Parse(src.text))

\* Scan accepting a string only: a []byte falls to the default case
Scan_StringOnly(ptr, obj, src) ==
    IF ptr = "nil"
    THEN [err |-> ErrorNew(ErrObjIsNil), obj |-> obj, printed |-> <<>>]
    ELSE IF src.kind = "string"
    THEN [printed |-> <<>>] @@ Store(obj, Parse(src.text))
    ELSE [err |-> Wrap(ErrorNew(ErrUnexpected), <<"type of value '", src.kind, "'">>),
          obj |-> obj, printed |-> <<>>]

Scan(ptr, obj, src) ==
    IF ptr = "nil"
    THEN [err |-> ErrorNew(ErrObjIsNil), obj |-> obj, printed |-> <<>>]
    ELSE IF src.kind = "[]byte"
    THEN [printed |-> << <<"str(bytes) = '">> \o src.text \o <<"'">> >>]
         @@ Store(obj, Parse(src.text))
    ELSE IF src.kind = "string"
    THEN [printed |-> <<>>] @@ Store(obj, Parse(src.text))
    ELSE [err |-> Wrap(ErrorNew(ErrUnexpected), <<"type of value '", src.kind, "'">>),
          obj |-> obj, printed |-> <<>>]

(***************************************************************************)
(* The state.  t is the DayTime the caller holds; clock is the wall clock; *)
(* call records the last completed call: the operation, its receiver and   *)
(* inputs, the value of t before it, and what it returned and printed;     *)
(* hist is history: base, the value t was last given by New, Parse or as   *)
(* the zero value, and ok, the input of the last decode call since then    *)
(* that returned no error (<<>> if none, else <<input>>).                  *)
(***************************************************************************)
NoSrc == [kind |-> "none", text |-> <<>>]
Blank ==
    [op |-> "none", ptr |-> "t", pre |-> ZeroDayTime, args |-> <<0, 0, 0>>,
     src |-> NoSrc, val |-> ZeroDayTime, str |-> <<>>, tm |-> 0, now |-> 0,
     tnow |-> 0, err |-> NoErr, printed |-> <<>>]

Ptrs == {"nil", "t"}

\* value, err := New(hour, minute, second); the caller keeps the value
DoNew(hour, minute, second) ==
    \E r \in {New(hour, minute, second)} :
        /\ t' = r.val
        /\ call' = [Blank EXCEPT !.op = "New", !.pre = t,
                                 !.args = <<hour, minute, second>>,
                                 !.val = r.val, !.err = r.err]
        /\ hist' = [base |-> r.val, ok |-> <<>>]
        /\ UNCHANGED clock

\* value, err := Parse(text); the caller keeps the value
DoParse(text) ==
    \E r \in {Parse(text)} :
        /\ t' = r.val
        /\ call' = [Blank EXCEPT !.op = "Parse", !.pre = t,
                                 !.src = [kind |-> "string", text |-> text],
                                 !.val = r.val, !.err = r.err]
        /\ hist' = [base |-> r.val, ok |-> <<>>]
        /\ UNCHANGED clock

DoString(ptr) ==
    /\ call' = [Blank EXCEPT !.op = "String", !.ptr = ptr, !.pre = t,
                             !.str = String(ptr, t)]
    /\ UNCHANGED <<t, clock, hist>>

\* one of the encode adapters
DoEncode(op, ptr) ==
    \E r \in {CASE op = "MarshalBinary" -> MarshalBinary(ptr, t)
               [] op = "MarshalText" -> MarshalText(ptr, t)
               [] op = "MarshalJSON" -> MarshalJSON(ptr, t)
               [] op = "MarshalCSV" -> MarshalCSV(ptr, t)
               [] op = "Value" -> Value(ptr, t)} :
        /\ call' = [Blank EXCEPT !.op = op, !.ptr = ptr, !.pre = t,
                                 !.str = r.data, !.err = r.err]
        /\ UNCHANGED <<t, clock, hist>>

\* one of the decode adapters on a text or byte input
DoDecode(op, ptr, data) ==
    \E r \in {CASE op = "UnmarshalBinary" -> UnmarshalBinary(ptr, t, data)
               [] op = "UnmarshalText" -> UnmarshalText(ptr, t, data)
               [] op = "UnmarshalJSON" -> UnmarshalJSON(ptr, t, data)
               [] op = "UnmarshalCSV" -> UnmarshalCSV(ptr, t, data)} :
        /\ t' = r.obj
        /\ call' = [Blank EXCEPT !.op = op, !.ptr = ptr, !.pre = t,
                                 !.src = [kind |-> IF op = "UnmarshalCSV"
                                                   THEN "string" ELSE "[]byte",
                                          text |-> data],
                                 !.err = r.err]
        /\ hist' = IF r.err = NoErr THEN [hist EXCEPT !.ok = <<data>>] ELSE hist
        /\ UNCHANGED clock

DoScan(ptr, src) ==
    \E r \in {Scan(ptr, t, src)} :
        /\ t' = r.obj
        /\ call' = [Blank EXCEPT !.op = "Scan", !.ptr = ptr, !.pre = t,
                                 !.src = src, !.err = r.err,
                                 !.printed = r.printed]
        /\ hist' = IF r.err = NoErr THEN [hist EXCEPT !.ok = <<src.text>>] ELSE hist
        /\ UNCHANGED clock

\* Time() reads the clock once
DoTime(ptr) ==
    /\ call' = [Blank EXCEPT !.op = "Time", !.ptr = ptr, !.pre = t,
                             !.now = clock, !.tnow = clock,
                             !.tm = Time(ptr, t, clock)]
    /\ UNCHANGED <<t, clock, hist>>

\* InTheNearFuture reads the clock, and the Time() it calls reads it again:
\* at tnow, the same instant or a later one
DoInTheNearFuture(ptr, tnow) ==
    /\ tnow >= clock
    /\ tnow <= clock + MaxLag * Second
    /\ clock' = tnow
    /\ call' = [Blank EXCEPT !.op = "InTheNearFuture", !.ptr = ptr, !.pre = t,
                             !.now = clock, !.tnow = tnow,
                             !.tm = InTheNearFuture(ptr, t, clock, tnow)]
    /\ UNCHANGED <<t, hist>>

DoInTheRecentPast(ptr, tnow) ==
    /\ tnow >= clock
    /\ tnow <= clock + MaxLag * Second
    /\ clock' = tnow
    /\ call' = [Blank EXCEPT !.op = "InTheRecentPast", !.ptr = ptr, !.pre = t,
                             !.now = clock, !.tnow = tnow,
                             !.tm = InTheRecentPast(ptr, t, clock, tnow)]
    /\ UNCHANGED <<t, hist>>

\* time passes between two calls
Tick(now) ==
    /\ now > clock
    /\ clock' = now
    /\ UNCHANGED <<t, call, hist>>

(***************************************************************************)
(* Inputs.                                                                 *)
(***************************************************************************)
TimeOfDay(v) == v.hour * Hour + v.minute * Minute + v.second * Second

\* the instants up to one second around the time of day of v, on each day
Around(v) ==
    {d * Day + TimeOfDay(v) + off : d \in 1..MaxDay, off \in (0 - SubSec)..SubSec}

AnchorDayTimes == {DayTime(0, 0, 0), DayTime(1, 2, 3), DayTime(23, 59, 59)}
Instants == UNION {Around(v) : v \in AnchorDayTimes}

NewHours == {7, 24}
NewMinutes == {5, 60}
NewSeconds == {-1, 0, 9}

Texts ==
    { <<>>,
      <<"0", "7", ":", "0", "5">>,
      <<"2", "3", ":", "5", "9", ":", "0", "9">>,
      <<" ", "0", "7", ":", "0", "5", ":", "0", "9", "\t">>,
      <<"2", "4", ":", "0", "2", ":", "0", "3">>,
      <<"7", ":", "5", ":", "9">> }

OtherKinds == {"map[int]string", "int64", "<nil>"}
ScanSrcs ==
    {[kind |-> k, text |-> x] : k \in {"string", "[]byte"}, x \in Texts}
    \cup {[kind |-> k, text |-> <<>>] : k \in OtherKinds}

Encoders == {"MarshalBinary", "MarshalText", "MarshalJSON", "MarshalCSV", "Value"}
Decoders == {"UnmarshalBinary", "UnmarshalText", "UnmarshalJSON", "UnmarshalCSV"}

\* the main specification runs the clock over the last tick of a day and the
\* first two of the next
MidnightInstants == {(MaxDay + 1) * Day + off : off \in {-1, 0, 1}}

(***************************************************************************)
(* Spec: any sequence of calls on one DayTime, starting from its zero      *)
(* value.                                                                  *)
(***************************************************************************)
Init ==
    /\ t = ZeroDayTime
    /\ clock \in MidnightInstants
    /\ call = Blank
    /\ hist = [base |-> ZeroDayTime, ok |-> <<>>]

Next ==
    \/ \E h \in NewHours, m \in NewMinutes, s \in NewSeconds : DoNew(h, m, s)
    \/ \E x \in Texts : DoParse(x)
    \/ \E p \in Ptrs : DoString(p)
    \/ \E op \in Encoders, p \in Ptrs : DoEncode(op, p)
    \/ \E op \in Decoders, p \in Ptrs, x \in Texts : DoDecode(op, p, x)
    \/ \E p \in Ptrs, src \in ScanSrcs : DoScan(p, src)
    \/ \E p \in Ptrs : DoTime(p)
    \/ \E p \in Ptrs, n \in MidnightInstants : DoInTheNearFuture(p, n)
    \/ \E p \in Ptrs, n \in MidnightInstants : DoInTheRecentPast(p, n)
    \/ \E n \in MidnightInstants : Tick(n)

Spec == Init /\ [][Next]_vars

(***************************************************************************)
(* SpecAnchor: the anchoring operations on a valid DayTime, the clock      *)
(* running over the instants around each sampled time of day.              *)
(***************************************************************************)
InitAnchor ==
    /\ t \in AnchorDayTimes
    /\ clock \in Instants
    /\ call = Blank
    /\ hist = [base |-> t, ok |-> <<>>]

NextAnchor ==
    \/ \E p \in Ptrs : DoTime(p)
    \/ \E p \in Ptrs, n \in Instants : DoInTheNearFuture(p, n)
    \/ \E p \in Ptrs, n \in Instants : DoInTheRecentPast(p, n)
    \/ \E n \in Instants : Tick(n)

SpecAnchor == InitAnchor /\ [][NextAnchor]_vars

(***************************************************************************)
(* SpecNew: New on every triple of integers up to Slack outside the valid  *)
(* ranges.                                                                 *)
(***************************************************************************)
Idle == [base |-> ZeroDayTime, ok |-> <<>>]

InitNew ==
    /\ t = ZeroDayTime
    /\ clock = Day
    /\ hist = Idle
    /\ \E h \in (0 - Slack)..(23 + Slack), m \in (0 - Slack)..(59 + Slack),
          s \in (0 - Slack)..(59 + Slack) :
            call = [Blank EXCEPT !.args = <<h, m, s>>]

NextNew == call.op = "none" /\ DoNew(call.args[1], call.args[2], call.args[3])

SpecNew == InitNew /\ [][NextNew]_vars

(***************************************************************************)
(* SpecParse: Parse on texts made of two or three fields joined by a       *)
(* separator, with up to MaxPad characters of padding on either side.      *)
(***************************************************************************)
PadChars == {" ", "\t", "\n"}
Pads == UNION {[1..n -> PadChars] : n \in 0..MaxPad}
Fields ==
    { <<"0", "7">>, <<"2", "3">>, <<"2", "4">>, <<"5", "9">>, <<"6", "0">>,
      <<"7">>, <<"0", "0", "7">>, <<" ", "7">> }
Seps == {":", "-"}
Cores ==
    {<<>>}
    \cup {f1 \o <<c>> \o f2 : f1 \in Fields, c \in Seps, f2 \in Fields}
    \cup {f1 \o <<c1>> \o f2 \o <<c2>> \o f3 :
            f1 \in Fields, c1 \in Seps, f2 \in Fields, c2 \in Seps, f3 \in Fields}
InitParse ==
    /\ t = ZeroDayTime
    /\ clock = Day
    /\ hist = Idle
    /\ \E l \in Pads, x \in Cores, r \in Pads :
            call = [Blank EXCEPT !.src = [kind |-> "string", text |-> l \o x \o r]]

NextParse == call.op = "none" /\ DoParse(call.src.text)

SpecParse == InitParse /\ [][NextParse]_vars

(***************************************************************************)
(* SpecRoundTrip: for every valid triple, New, then String on the value,   *)
(* then Parse on the string.                                               *)
(***************************************************************************)
InitRoundTrip ==
    /\ t = ZeroDayTime
    /\ clock = Day
    /\ hist = Idle
    /\ \E h \in 0..23, m \in 0..59, s \in 0..59 :
            call = [Blank EXCEPT !.args = <<h, m, s>>]

NextRoundTrip ==
    \/ call.op = "none" /\ DoNew(call.args[1], call.args[2], call.args[3])
    \/ call.op = "New" /\ call.err = NoErr /\ DoString("t")
    \/ call.op = "String" /\ DoParse(call.str)

SpecRoundTrip == InitRoundTrip /\ [][NextRoundTrip]_vars

(***************************************************************************)
(* SpecEncode: String and the encode adapters on every valid DayTime and   *)
(* on the nil receiver.                                                    *)
(***************************************************************************)
InitEncode ==
    /\ t \in {New(h, m, s).val : h \in 0..23, m \in 0..59, s \in 0..59}
    /\ clock = Day
    /\ hist = [base |-> t, ok |-> <<>>]
    /\ call = Blank

NextEncode ==
    \/ call.op = "none" /\ \E p \in Ptrs : DoString(p)
    \/ call.op = "none" /\ \E op \in Encoders, p \in Ptrs : DoEncode(op, p)

SpecEncode == InitEncode /\ [][NextEncode]_vars

(***************************************************************************)
(* Claims about anchoring (SpecAnchor).                                    *)
(***************************************************************************)
\* the value a call reads through its receiver: 00:00:00 through nil
Stored(c) == IF c.ptr = "nil" THEN ZeroDayTime ELSE c.pre
\* the fields of an instant, as time.Time's Hour, Minute, Second, Nanosecond
HourOf(x) == (x % Day) \div Hour
MinuteOf(x) == (x % Hour) \div Minute
SecondOf(x) == (x % Minute) \div Second
SubSecOf(x) == x % Second
HasTimeOfDay(x, v) ==
    /\ HourOf(x) = v.hour
    /\ MinuteOf(x) = v.minute
    /\ SecondOf(x) = v.second
    /\ SubSecOf(x) = 0

\* C1: InTheNearFuture returns the soonest instant with the stored time of
\* day that is not before the call's now: now <= r < now + 24h, r is
\* Time() + 24h when Time() is before now and Time() otherwise, and r = now
\* when Time() equals now -- also when the clock advances between the reads.
C1_NearFutureSoonest ==
    call.op = "InTheNearFuture" =>
        LET tm == Time(call.ptr, call.pre, call.tnow)
        IN  /\ call.now <= call.tm
            /\ call.tm < call.now + Day
            /\ HasTimeOfDay(call.tm, Stored(call))
            /\ (tm < call.now => call.tm = tm + Day)
            /\ (tm >= call.now => call.tm = tm)
            /\ (tm = call.now => call.tm = call.now)

\* C1 as it holds of the code: when both clock reads of the call fall on the
\* same calendar date
C1_NearFutureSoonestOnOneDate ==
    (call.op = "InTheNearFuture" /\ DateOf(call.now) = DateOf(call.tnow)) =>
        LET tm == Time(call.ptr, call.pre, call.tnow)
        IN  /\ call.now <= call.tm
            /\ call.tm < call.now + Day
            /\ HasTimeOfDay(call.tm, Stored(call))
            /\ (tm < call.now => call.tm = tm + Day)
            /\ (tm >= call.now => call.tm = tm)

C3_RecentPastLatest ==
    call.op = "InTheRecentPast" =>
        LET tm == Time(call.ptr, call.pre, call.tnow)
            v == Stored(call)
            today == DateOf(call.now)
        IN  /\ (tm > call.now => call.tm = tm - Day)
            /\ (tm <= call.now => call.tm = tm)
            /\ call.now - Day < call.tm
            /\ call.tm <= call.now
            /\ TimeOfDay(v) <= call.now % Day
                => call.tm = TimeDate(today, v.hour, v.minute, v.second, 0)
            /\ TimeOfDay(v) > call.now % Day
                => call.tm = TimeDate(today - 1, v.hour, v.minute, v.second, 0)

\* C3 as it holds of the code: when both clock reads fall on the same date
C3_RecentPastLatestOnOneDate ==
    (call.op = "InTheRecentPast" /\ DateOf(call.now) = DateOf(call.tnow)) =>
        LET tm == Time(call.ptr, call.pre, call.tnow)
            v == Stored(call)
            today == DateOf(call.now)
        IN  /\ (tm > call.now => call.tm = tm - Day)
            /\ (tm <= call.now => call.tm = tm)
            /\ call.now - Day < call.tm
            /\ call.tm <= call.now
            /\ TimeOfDay(v) <= call.now % Day
                => call.tm = TimeDate(today, v.hour, v.minute, v.second, 0)
            /\ TimeOfDay(v) > call.now % Day
                => call.tm = TimeDate(today - 1, v.hour, v.minute, v.second, 0)

\* C4: Time() returns the instant on the calendar date of the now it reads
\* whose hour, minute and second are the stored fields (00:00:00 through a
\* nil receiver) and whose sub-second part is zero; the receiver is unchanged.
C4_TimeOnCurrentDate ==
    call.op = "Time" =>
        /\ DateOf(call.tm) = DateOf(call.tnow)
        /\ HasTimeOfDay(call.tm, Stored(call))
        /\ t = call.pre

\* Time() on 01:02:03 while the clock shows a sub-second part
C4_Witness ==
    /\ call.op = "Time"
    /\ call.ptr = "t"
    /\ call.pre = DayTime(1, 2, 3)
    /\ SubSecOf(call.tnow) # 0
    /\ call.tm = DateOf(call.tnow) * Day + TimeOfDay(call.pre)

\* Time() through a nil receiver
C4_WitnessNil ==
    /\ call.op = "Time"
    /\ call.ptr = "nil"
    /\ t # ZeroDayTime
    /\ HourOf(call.tm) = 0

(***************************************************************************)
(* Claims about New, Parse and String.                                     *)
(***************************************************************************)
\* n in 0..99 written with exactly two digits
TwoDigits(n) == <<Digits[(n \div 10) + 1], Digits[(n % 10) + 1]>>
\* the numbers up to lim that the two characters f are the two digits of
Reads(f, lim) == {n \in 0..lim : TwoDigits(n) = f}

\* the text without its leading and trailing spaces and tabs
Stripped(x) ==
    LET keep == {i \in 1..Len(x) : x[i] \notin {" ", "\t"}}
    IN  IF keep = {} THEN <<>>
        ELSE SubSeq(x, CHOOSE i \in keep : \A j \in keep : i <= j,
                       CHOOSE i \in keep : \A j \in keep : i >= j)

\* the triples a text denotes: one if it is exactly DD:DD or DD:DD:DD with
\* hour <= 23, minute <= 59 and second <= 59, none otherwise
Denoted(x) ==
    IF Len(x) = 5 /\ x[3] = ":"
    THEN {DayTime(h, m, 0) :
            h \in Reads(SubSeq(x, 1, 2), 23), m \in Reads(SubSeq(x, 4, 5), 59)}
    ELSE IF Len(x) = 8 /\ x[3] = ":" /\ x[6] = ":"
    THEN {DayTime(h, m, sec) :
            h \in Reads(SubSeq(x, 1, 2), 23), m \in Reads(SubSeq(x, 4, 5), 59),
            sec \in Reads(SubSeq(x, 7, 8), 59)}
    ELSE {}

\* the canonical text of a triple: HH:MM, and :SS unless the second is 0
Canonical(v) ==
    TwoDigits(v.hour) \o <<":">> \o TwoDigits(v.minute)
        \o (IF v.second = 0 THEN <<>> ELSE <<":">> \o TwoDigits(v.second))

\* C5: New(h,m,s) succeeds and returns exactly (h,m,s) iff 0<=h<=23, 0<=m<=59
\* and 0<=s<=59; otherwise it fails with Invalid, returns the zero triple and
\* reports only the first out-of-range field in the order hour, minute, second.
C5_NewValidates ==
    call.op = "New" =>
        LET h == call.args[1]
            m == call.args[2]
            s == call.args[3]
            valid == h \in 0..23 /\ m \in 0..59 /\ s \in 0..59
            first == IF h \notin 0..23 THEN <<"value of hour is ">> \o Itoa(h)
                     ELSE IF m \notin 0..59 THEN <<"value of minute is ">> \o Itoa(m)
                     ELSE <<"value of second is ">> \o Itoa(s)
        IN  /\ call.err = NoErr <=> valid
            /\ valid => call.val = DayTime(h, m, s)
            /\ ~valid => /\ ErrorIs(call.err, ErrInvalid)
                         /\ call.val = ZeroDayTime
                         /\ call.err.msgs = <<first>>

\* New(24, 60, -1) fails and reports the hour alone
C5_Witness ==
    /\ call.op = "New"
    /\ call.args = <<24, 60, -1>>
    /\ ErrorIs(call.err, ErrInvalid)
    /\ call.err.msgs = << <<"value of hour is ", "2", "4">> >>
    /\ call.val = ZeroDayTime

\* C6: with its leading and trailing spaces and tabs removed, a text parses
\* iff it is exactly DD:DD or DD:DD:DD with hour <= 23, minute <= 59 and
\* second <= 59, and Parse then returns (hour, minute, second), second 0 when
\* absent; every other text fails with Invalid and returns the zero triple.
C6_ParseAcceptsCanonical ==
    call.op = "Parse" =>
        LET denoted == Denoted(Stripped(call.src.text))
        IN  /\ call.err = NoErr <=> denoted # {}
            /\ denoted # {} => call.val \in denoted
            /\ denoted = {} => /\ ErrorIs(call.err, ErrInvalid)
                               /\ call.val = ZeroDayTime

\* " 23:59\t" parses to 23:59:00
C6_Witness ==
    /\ call.op = "Parse"
    /\ call.src.text = <<" ", "2", "3", ":", "5", "9", "\t">>
    /\ call.err = NoErr
    /\ call.val = DayTime(23, 59, 0)

\* "\n23:59" is rejected: a line feed is not trimmed
C6_WitnessLineFeed ==
    /\ call.op = "Parse"
    /\ call.src.text = <<"\n", "2", "3", ":", "5", "9">>
    /\ ErrorIs(call.err, ErrInvalid)

\* C7: for every valid triple (h,m,s), Parse(String(New(h,m,s))) succeeds
\* and yields (h,m,0) if s = 0 and (h,m,s) otherwise: the original value.
C7_RoundTrip ==
    call.op = "Parse" =>
        /\ call.err = NoErr
        /\ call.val = call.pre
        /\ call.pre.second = 0
            => call.val = DayTime(call.pre.hour, call.pre.minute, 0)

\* every New of the round trip returned its arguments
C7_RoundTripStartsAtNew ==
    call.op = "New" =>
        call.err = NoErr /\ t = DayTime(call.args[1], call.args[2], call.args[3])

\* 07:05:00 was rendered "07:05" and parsed back
C7_Witness ==
    /\ call.op = "Parse"
    /\ call.pre = DayTime(7, 5, 0)
    /\ call.src.text = <<"0", "7", ":", "0", "5">>
    /\ call.val = DayTime(7, 5, 0)

\* C8: String returns "00:00" through a nil receiver, "HH:MM" when the
\* second is 0 and "HH:MM:SS" otherwise, each field in two digits; and each
\* encode adapter returns exactly that string and no error, for present and
\* absent receivers alike.
C8_CanonicalRendering ==
    call.op \in {"String"} \cup Encoders =>
        /\ call.str = IF call.ptr = "nil" THEN <<"0", "0", ":", "0", "0">>
                      ELSE Canonical(call.pre)
        /\ call.err = NoErr
        /\ t = call.pre

\* MarshalJSON of 07:05:09 returned "07:05:09"
C8_Witness ==
    /\ call.op = "MarshalJSON"
    /\ call.ptr = "t"
    /\ call.pre = DayTime(7, 5, 9)
    /\ call.str = <<"0", "7", ":", "0", "5", ":", "0", "9">>

\* Value through nil, while the caller holds 23:59:59, returned "00:00"
C8_WitnessNil ==
    /\ call.op = "Value"
    /\ call.ptr = "nil"
    /\ t = DayTime(23, 59, 59)
    /\ call.str = <<"0", "0", ":", "0", "0">>

(***************************************************************************)
(* Claims about the decode adapters (Spec).                                *)
(***************************************************************************)
\* C9: every decode adapter called on a nil target returns ObjIsNil, whatever
\* the input (malformed text, an unsupported shape for Scan), and writes
\* nothing.
C9_NilTarget ==
    (call.op \in Decoders \cup {"Scan"} /\ call.ptr = "nil") =>
        /\ call.err = ErrorNew(ErrObjIsNil)
        /\ t = call.pre
        /\ call.printed = <<>>

\* Scan of a map through nil, while the caller holds 07:05:09
C9_Witness ==
    /\ call.op = "Scan"
    /\ call.ptr = "nil"
    /\ call.src.kind = "map[int]string"
    /\ call.pre = DayTime(7, 5, 9)
    /\ ErrorIs(call.err, ErrObjIsNil)

\* UnmarshalJSON of "24:02:03" through nil
C9_WitnessMalformed ==
    /\ call.op = "UnmarshalJSON"
    /\ call.ptr = "nil"
    /\ call.src.text = <<"2", "4", ":", "0", "2", ":", "0", "3">>
    /\ ErrorIs(call.err, ErrObjIsNil)

\* a decode call that was handed text: the four Unmarshal adapters, and Scan
\* of a string or a []byte
DecodesText(c) ==
    \/ c.op \in Decoders
    \/ c.op = "Scan" /\ c.src.kind \in {"string", "[]byte"}

\* C10: a decode adapter on a present target returns, for a text that does
\* not parse, an error that is Invalid wrapped with "parse" and leaves the
\* target as it was; for a text that parses it replaces the target by the
\* parsed triple.  So the target is always the triple of the most recent
\* successful decode call, or its initial value if none succeeded.
C10_DecodeAllOrNothing ==
    /\ (DecodesText(call) /\ call.ptr = "t") =>
            LET denoted == Denoted(Stripped(call.src.text))
            IN  /\ denoted = {} => /\ ErrorIs(call.err, ErrInvalid)
                                   /\ Len(call.err.msgs) > 1
                                   /\ Head(call.err.msgs) = <<"parse">>
                                   /\ t = call.pre
                /\ denoted # {} => /\ call.err = NoErr
                                   /\ t \in denoted
    /\ hist.ok = <<>> => t = hist.base
    /\ hist.ok # <<>> => t \in Denoted(Stripped(hist.ok[1]))

\* UnmarshalCSV of "24:02:03" into a target holding 07:05:09
C10_Witness ==
    /\ call.op = "UnmarshalCSV"
    /\ call.ptr = "t"
    /\ call.pre = DayTime(7, 5, 9)
    /\ call.src.text = <<"2", "4", ":", "0", "2", ":", "0", "3">>
    /\ ErrorIs(call.err, ErrInvalid)
    /\ t = DayTime(7, 5, 9)
    /\ hist.ok # <<>>

\* C11: Scan on a present target, given a string or a []byte, has the
\* outcome of Parse on those characters: it succeeds iff Parse does, the
\* target then holds what Parse returned, and otherwise holds what it held;
\* any other shape fails with Unexpected, without parsing, and leaves the
\* target unchanged.
C11_ScanShapes ==
    (call.op = "Scan" /\ call.ptr = "t") =>
        IF call.src.kind \in {"string", "[]byte"}
        THEN /\ call.err = NoErr <=> Parse(call.src.text).err = NoErr
             /\ call.err = NoErr => t = Parse(call.src.text).val
             /\ call.err # NoErr => /\ t = call.pre
                                    /\ ErrorIs(call.err, Parse(call.src.text).err.cause)
        ELSE /\ ErrorIs(call.err, ErrUnexpected)
             /\ call.err.msgs = << <<"type of value '", call.src.kind, "'">> >>
             /\ t = call.pre

\* Scan of the bytes "23:59:09" into a target holding 07:05:00
C11_Witness ==
    /\ call.op = "Scan"
    /\ call.ptr = "t"
    /\ call.src = [kind |-> "[]byte",
                   text |-> <<"2", "3", ":", "5", "9", ":", "0", "9">>]
    /\ call.pre = DayTime(7, 5, 0)
    /\ call.err = NoErr
    /\ t = DayTime(23, 59, 9)

\* Scan of a map into a target holding 07:05:09
C11_WitnessMap ==
    /\ call.op = "Scan"
    /\ call.ptr = "t"
    /\ call.src.kind = "map[int]string"
    /\ ErrorIs(call.err, ErrUnexpected)
    /\ t = DayTime(7, 5, 9)

(***************************************************************************)
(* Claims about effects and the range invariant (Spec).                    *)
(***************************************************************************)
\* the calls that only read their receiver
ReadOnly == {"String", "Time", "InTheNearFuture", "InTheRecentPast"} \cup Encoders

\* C12: no operation performs I/O: a call writes nothing to standard output,
\* Scan of a []byte no more than Scan of a string, and the only effect beside
\* the returned values is the overwrite of the target by a successful decode.
C12_NoOutput ==
    /\ call.printed = <<>>
    /\ (call.op \in ReadOnly \cup Decoders \cup {"Scan"} /\ t # call.pre)
            => (call.op \in Decoders \cup {"Scan"} /\ call.err = NoErr)

\* C12 as it holds of the code: the one call that writes to standard output
\* is Scan of a []byte on a present target, which prints the text it was given
C12_OnlyScanOfBytesPrints ==
    /\ call.printed # <<>>
            => /\ call.op = "Scan"
               /\ call.ptr = "t"
               /\ call.src.kind = "[]byte"
               /\ call.printed = << <<"str(bytes) = '">> \o call.src.text \o <<"'">> >>
    /\ (call.op = "Scan" /\ call.ptr = "t" /\ call.src.kind = "[]byte")
            => call.printed # <<>>
    /\ (call.op \in ReadOnly \cup Decoders \cup {"Scan"} /\ t # call.pre)
            => (call.op \in Decoders \cup {"Scan"} /\ call.err = NoErr)

\* C13: from the zero value or any value New or Parse returned, after any
\* sequence of decode calls and any interleaved String, encode, Time,
\* InTheNearFuture and InTheRecentPast calls, the value satisfies
\* 0 <= hour <= 23, 0 <= minute <= 59 and 0 <= second <= 59, and the
\* read-only calls leave it unchanged.
C13_RangeInvariant ==
    /\ t.hour \in 0..23
    /\ t.minute \in 0..59
    /\ t.second \in 0..59
    /\ call.op \in ReadOnly => t = call.pre

\* InTheNearFuture on 23:59:09, which a decode call stored, after a later
\* call changed nothing
C13_Witness ==
    /\ call.op = "InTheNearFuture"
    /\ call.ptr = "t"
    /\ hist.ok # <<>>
    /\ hist.base # ZeroDayTime
    /\ call.pre = DayTime(23, 59, 9)
    /\ t = DayTime(23, 59, 9)

====
